---- MODULE Spec2Model ----
(***************************************************************************)
(* Model of the resilience-and-concurrency layer of the prior bot:         *)
(*   - the wallet registry (WalletLoader, src/unnamed/part_002),           *)
(*   - the scheduler loop (startMainLoop / runWalletTask, src/main.js),    *)
(*   - the RPC endpoint pool (RpcManager, src/swapEngine.js 499-767),      *)
(*   - the fee escalation (SwapEngine.retryWithHigherGas,                  *)
(*     src/swapEngine.js 282-387).                                         *)
(*                                                                         *)
(* JavaScript runs one synchronous segment at a time: every action below   *)
(* is the code between two awaits.  Time is Date.now() in units of 60 s    *)
(* (the failure cooldown 60000..120000 ms is 1..2 units).                  *)
(***************************************************************************)
EXTENDS Integers, Sequences, FiniteSets, TLC

VARIABLES
    \* ---- configuration (config.json, read once at startup) ----
    maxConcurrent,      \* wallets.maxConcurrent
    runForever,         \* wallets.runForever
    maxTransactions,    \* wallets.maxTransactions (Undefined when the key is absent)
    roundMin, roundMax, \* delays.betweenRounds.min / .max
    betweenWallets,     \* delays.betweenWallets is present
    apiMining,          \* api.mining is present
    \* ---- WalletLoader ----
    wallets,            \* this.wallets: the loaded list, one address per private key
    walletStates,       \* this.walletStates: Map address -> state
    \* ---- scheduler / tasks ----
    now,                \* Date.now()
    loopPc,             \* where startMainLoop is suspended
    walletsToRun,       \* the part of the tick's batch not launched yet
    inFlight,           \* address -> number of runWalletTask calls not yet finished
    \* ---- RpcManager ----
    failCount,          \* providers[i].failCount, i = 0 .. urls.length - 1
    currentProviderIndex,
    testIndex,          \* the provider testAllProviders tests next
    poolPc,             \* "testing" until testAllProviders ends, then "ready" or "failed"
    returned,           \* what the last getCurrentProvider() call returned
    calls,              \* the withProvider calls in progress
    \* ---- SwapEngine fee settings ----
    gasSettings,        \* config.gasSettings.swap, shared by every task
    callers,            \* the executeSwap call chain of each concurrent task
    \* ---- SwapEngine.executeTransactionSequence ----
    run,                \* one call of executeTransactionSequence
    \* ---- the SwapEngine instance shared by every task ----
    connectedWallet,    \* this.connectedWallet (and the signer of this.*Contract)
    tasks               \* the runWalletTask calls started, by the wallet they got

configVars == <<maxConcurrent, runForever, maxTransactions, roundMin, roundMax,
                betweenWallets, apiMining>>

schedVars == <<configVars, wallets, walletStates, now, loopPc, walletsToRun, inFlight>>

poolVars == <<failCount, currentProviderIndex, testIndex, poolPc, returned, calls>>

feeVars == <<gasSettings, callers>>

engineVars == <<connectedWallet, tasks>>

seqVars == <<run, engineVars>>

vars == <<schedVars, poolVars, feeVars, seqVars>>

-----------------------------------------------------------------------------
\* Bounds of the model.
MaxWallets == 2          \* length of the loaded wallet list
MaxCeiling == 2          \* largest wallets.maxConcurrent tried
MaxTime == 1             \* the clock stops advancing here
MaxRound == 3            \* largest delays.betweenRounds value tried
MaxMaxTransactions == 1  \* largest wallets.maxTransactions tried
MaxOps == 2              \* completions per address when the registry is driven directly

MaxProviders == 3        \* largest number of RPC urls tried
RpcMaxRetries == 2       \* network.rpc.maxRetries tried
NumCallers == 2          \* tasks that run executeSwap concurrently
MaxSwaps == 2            \* executeSwap calls each of them starts
MaxSteps == 4            \* largest transactions.maxTransactionsPerWallet tried

\* Program constants.
BackoffMin == 1          \* getRandomInRange(60000, ...)  in units of 60 s
BackoffMax == 2          \* getRandomInRange(..., 120000) in units of 60 s
\* Number.MAX_SAFE_INTEGER, scaled to TLC's integers: larger than any clock value.
MAX_SAFE_INTEGER == 1000000

\* config.gasSettings.swap: fees in 10^-6 gwei ("0.0014", "0.0009"), the retry
\* budget, and the multiplier 1.3 in tenths.
ConfiguredMaxFeePerGas == 1400
ConfiguredMaxPriorityFeePerGas == 900
ConfiguredMaxRetries == 3
RetryMultiplierTenths == 13

\* JavaScript's undefined for an absent configuration key (no number equals it).
Undefined == 0 - 1
Null == "null"

Min(a, b) == IF a <= b THEN a ELSE b

\* utils.getRandomInRange: Math.floor(Math.random() * (max - min + 1)) + min.
\* The set of values it can return.
GetRandomInRange(min, max) ==
    IF min <= max THEN min..max ELSE (max + 1)..min

-----------------------------------------------------------------------------
\* WalletLoader

\* initializeWalletState: the state a freshly registered address gets.
InitialWalletState(t) ==
    [isRunning |-> FALSE, nextRunTime |-> t, transactionsCompleted |-> 0,
     errors |-> 0, lastError |-> Null, status |-> "ready"]

\* The filter predicate of getAvailableWallets.
IsAvailable(ws, a, t) == ~ws[a].isRunning /\ t >= ws[a].nextRunTime

\* getAvailableWallets: this.wallets filtered, list order kept.
GetAvailableWallets(ws, t) ==
    SelectSeq(wallets, LAMBDA a : IsAvailable(ws, a, t))

\* getRunningWalletsCount: counts the Map's values, one per address.
GetRunningWalletsCount(ws) ==
    Cardinality({a \in DOMAIN ws : ws[a].isRunning})

\* markWalletAsRunning (via updateWalletState): no check of the current state.
MarkWalletAsRunning(ws, a) ==
    [ws EXCEPT ![a].isRunning = TRUE, ![a].status = "running"]

\* A retirement test that fires one run late.
ReachedMaxTransactions_Strict(tc) ==
    /\ ~runForever
    /\ maxTransactions # Undefined
    /\ tc > maxTransactions

\* The retirement test of markWalletAsCompleted.  A comparison with undefined
\* is false in JavaScript.
ReachedMaxTransactions(tc) ==
    /\ ~runForever
    /\ maxTransactions # Undefined
    /\ tc >= maxTransactions

\* A failure that waits the success cooldown.
NextRunDelays_AlwaysRound(success) == GetRandomInRange(roundMin, roundMax)

\* The delays markWalletAsCompleted can draw.
NextRunDelays(success) ==
    IF success THEN GetRandomInRange(roundMin, roundMax)
               ELSE GetRandomInRange(BackoffMin, BackoffMax)

\* A completion that counts an error whatever the outcome.
MarkWalletAsCompleted_CountsError(ws, a, success, errorMessage, delay, t) ==
    LET tc == IF success THEN ws[a].transactionsCompleted + 1
                         ELSE ws[a].transactionsCompleted
        updated == [ws[a] EXCEPT
                      !.isRunning = FALSE,
                      !.transactionsCompleted = tc,
                      !.nextRunTime = t + delay,
                      !.status = IF success THEN "completed" ELSE "failed",
                      !.errors = @ + 1,
                      !.lastError = errorMessage]
        retired == [updated EXCEPT !.status = "retired",
                                   !.nextRunTime = MAX_SAFE_INTEGER]
    IN  [ws EXCEPT ![a] = IF ReachedMaxTransactions(tc) THEN retired ELSE updated]

\* markWalletAsCompleted(address, success, errorMessage) with the delay drawn.
MarkWalletAsCompleted(ws, a, success, errorMessage, delay, t) ==
    LET tc == IF success THEN ws[a].transactionsCompleted + 1
                         ELSE ws[a].transactionsCompleted
        updated == [ws[a] EXCEPT
                      !.isRunning = FALSE,
                      !.transactionsCompleted = tc,
                      !.nextRunTime = t + delay,
                      !.status = IF success THEN "completed" ELSE "failed",
                      !.errors = IF success THEN @ ELSE @ + 1,
                      !.lastError = IF success THEN @ ELSE errorMessage]
        retired == [updated EXCEPT !.status = "retired",
                                   !.nextRunTime = MAX_SAFE_INTEGER]
    IN  [ws EXCEPT ![a] = IF ReachedMaxTransactions(tc) THEN retired ELSE updated]

\* getWalletStats.
GetWalletStats(ws, t) ==
    [total |-> Len(wallets),
     running |-> GetRunningWalletsCount(ws),
     available |-> Len(GetAvailableWallets(ws, t)),
     completed |-> Cardinality({a \in DOMAIN ws : ws[a].transactionsCompleted > 0})]

-----------------------------------------------------------------------------
\* Initial states: a configuration and a wallet file, duplicates of a private
\* key included.  Lists are taken up to renaming of the addresses (the first
\* occurrences appear in increasing order).

Range(s) == {s[i] : i \in DOMAIN s}

WalletLists(n) ==
    {s \in [1..n -> 1..n] :
        \A i \in 1..n : s[i] <= 1 + Cardinality({s[j] : j \in 1..(i - 1)})}

\* Every wallet file of MaxWallets keys and every ceiling, under a success
\* cooldown longer than the failure cooldown (as in the shipped config.json).
SchedulingInputs ==
    /\ wallets \in WalletLists(MaxWallets)
    /\ maxConcurrent \in 1..MaxCeiling
    /\ roundMin = MaxRound
    /\ roundMax = MaxRound
    /\ betweenWallets \in BOOLEAN
    /\ apiMining = TRUE

\* Every success cooldown range up to MaxRound, for the wallet files of two keys.
CooldownInputs ==
    /\ wallets \in WalletLists(2)
    /\ maxConcurrent = MaxCeiling
    /\ roundMin \in 1..MaxRound
    /\ roundMax \in roundMin..MaxRound
    /\ betweenWallets = TRUE
    /\ apiMining = TRUE

SchedulerInit ==
    /\ SchedulingInputs \/ CooldownInputs
    /\ runForever \in BOOLEAN
    \* wallets.maxTransactions is read in one-time mode only
    /\ maxTransactions \in IF runForever THEN {Undefined}
                                         ELSE {Undefined} \cup 0..MaxMaxTransactions
    /\ now = 0
    /\ walletStates = [a \in Range(wallets) |-> InitialWalletState(0)]
    /\ loopPc = "tick"
    /\ walletsToRun = <<>>
    /\ inFlight = [a \in Range(wallets) |-> 0]

-----------------------------------------------------------------------------
\* startMainLoop

\* A launch that goes straight back to the top of the loop, without the sleep.
LaunchWallet_NoPace(a, rest) ==
    /\ betweenWallets
    /\ walletStates' = MarkWalletAsRunning(walletStates, a)
    /\ inFlight' = [inFlight EXCEPT ![a] = @ + 1]
    /\ walletsToRun' = rest
    /\ loopPc' = "tick"

\* Lines 168-192: mark the wallet running, start its task, sleep the pacing delay.
LaunchWallet(a, rest) ==
    /\ betweenWallets
    /\ walletStates' = MarkWalletAsRunning(walletStates, a)
    /\ inFlight' = [inFlight EXCEPT ![a] = @ + 1]
    /\ walletsToRun' = rest
    /\ loopPc' = "pace"

\* A batch taken without the slice.
SliceToRun_NoCeiling(ws, t) == GetAvailableWallets(ws, t)

\* The slice of line 159.
SliceToRun(ws, t) ==
    SubSeq(GetAvailableWallets(ws, t), 1,
           Min(Len(GetAvailableWallets(ws, t)),
               maxConcurrent - GetRunningWalletsCount(ws)))

\* A tick that finds the ceiling reached (lines 152-156).
TickCeilingReached ==
    /\ loopPc = "tick"
    /\ GetRunningWalletsCount(walletStates) >= maxConcurrent
    /\ UNCHANGED <<configVars, wallets, walletStates, now, loopPc, walletsToRun, inFlight, poolVars, feeVars, seqVars>>

\* A tick that finds no wallet to run (lines 161-165).
TickNothingToRun ==
    /\ loopPc = "tick"
    /\ GetRunningWalletsCount(walletStates) < maxConcurrent
    /\ SliceToRun(walletStates, now) = <<>>
    /\ UNCHANGED <<configVars, wallets, walletStates, now, loopPc, walletsToRun, inFlight, poolVars, feeVars, seqVars>>

\* A tick that selects a batch and launches its first wallet (lines 143-192).
TickLaunch ==
    /\ loopPc = "tick"
    /\ GetRunningWalletsCount(walletStates) < maxConcurrent
    /\ SliceToRun(walletStates, now) # <<>>
    /\ LaunchWallet(Head(SliceToRun(walletStates, now)),
                    Tail(SliceToRun(walletStates, now)))
    /\ UNCHANGED <<configVars, wallets, now, poolVars, feeVars, seqVars>>

\* A tick whose first launch raises at line 187 (delays.betweenWallets is
\* undefined): the wallet is marked running and its task started, the catch of
\* lines 208-211 logs and sleeps 10 s; the rest of the batch is dropped.
TickLaunchRaises ==
    /\ loopPc = "tick"
    /\ GetRunningWalletsCount(walletStates) < maxConcurrent
    /\ SliceToRun(walletStates, now) # <<>>
    /\ ~betweenWallets
    /\ walletStates' = MarkWalletAsRunning(walletStates,
                                           Head(SliceToRun(walletStates, now)))
    /\ inFlight' = [inFlight EXCEPT ![Head(SliceToRun(walletStates, now))] = @ + 1]
    /\ loopPc' = "caught"
    /\ UNCHANGED <<configVars, wallets, now, walletsToRun, poolVars, feeVars, seqVars>>

\* A catch block that leaves the loop.
LoopAfterCatch_Exits == "exited"

\* Where the loop is after the catch block: the while (true) goes round.
LoopAfterCatch == "tick"

\* The sleep(10000) of the catch block ends (line 210).
CatchSleepEnds ==
    /\ loopPc = "caught"
    /\ loopPc' = LoopAfterCatch
    /\ UNCHANGED <<configVars, wallets, walletStates, now, walletsToRun, inFlight, poolVars, feeVars, seqVars>>

\* The pacing sleep ends and the for loop launches the next wallet of the batch.
PaceLaunch ==
    /\ loopPc = "pace"
    /\ walletsToRun # <<>>
    /\ LaunchWallet(Head(walletsToRun), Tail(walletsToRun))
    /\ UNCHANGED <<configVars, wallets, now, poolVars, feeVars, seqVars>>

\* An exit test that does not look at the mode.
AllDone_IgnoresMode(ws, t) ==
    /\ GetWalletStats(ws, t).completed + GetWalletStats(ws, t).running
          >= GetWalletStats(ws, t).total
    /\ GetWalletStats(ws, t).available = 0

\* The exit test of lines 196-204.
AllDone(ws, t) ==
    /\ ~runForever
    /\ GetWalletStats(ws, t).completed + GetWalletStats(ws, t).running
          >= GetWalletStats(ws, t).total
    /\ GetWalletStats(ws, t).available = 0

\* The pacing sleep after the last launch ends; one-time mode is done: break.
PaceExit ==
    /\ loopPc = "pace"
    /\ walletsToRun = <<>>
    /\ AllDone(walletStates, now)
    /\ loopPc' = "exited"
    /\ UNCHANGED <<configVars, wallets, walletStates, now, walletsToRun, inFlight, poolVars, feeVars, seqVars>>

\* The pacing sleep after the last launch ends; sleep walletCheckInterval, retick.
PaceContinue ==
    /\ loopPc = "pace"
    /\ walletsToRun = <<>>
    /\ ~AllDone(walletStates, now)
    /\ loopPc' = "tick"
    /\ UNCHANGED <<configVars, wallets, walletStates, now, walletsToRun, inFlight, poolVars, feeVars, seqVars>>

-----------------------------------------------------------------------------
\* runWalletTask

\* The message a task reports with its outcome: none at line 243
\* (executeTransactionSequence resolved true or false), error.message at
\* line 257 (initializeContracts or generateTransactionSequence threw).
ErrorMessages(success) == IF success THEN {Null} ELSE {Null, "error"}

\* The task of account a reports markWalletAsCompleted (line 243 or line 257).
FinishTask(a, success, delay) ==
    /\ inFlight[a] > 0
    /\ delay \in NextRunDelays(success)
    /\ \E errorMessage \in ErrorMessages(success) :
          walletStates' = MarkWalletAsCompleted(walletStates, a, success,
                                                errorMessage, delay, now)
    /\ inFlight' = [inFlight EXCEPT ![a] = @ - 1]
    /\ UNCHANGED <<configVars, wallets, now, loopPc, walletsToRun, poolVars, feeVars, seqVars>>

\* Every delay a completion can draw, whatever the configuration.
Delays == 1..(IF MaxRound > BackoffMax THEN MaxRound ELSE BackoffMax)

TaskSucceeds == \E a \in DOMAIN inFlight : \E d \in Delays : FinishTask(a, TRUE, d)

TaskFails == \E a \in DOMAIN inFlight : \E d \in Delays : FinishTask(a, FALSE, d)

\* Date.now() advances.
AdvanceTime ==
    /\ now < MaxTime
    /\ now' = now + 1
    /\ UNCHANGED <<configVars, wallets, walletStates, loopPc, walletsToRun, inFlight, poolVars, feeVars, seqVars>>

-----------------------------------------------------------------------------
\* WalletLoader driven through its methods in any order

\* initializeWalletState(address): Map.set of a fresh state, whatever the Map
\* holds for the address.
InitializeWalletState(ws, a, t) == [ws EXCEPT ![a] = InitialWalletState(t)]

CallInitializeWalletState(a) ==
    /\ walletStates' = InitializeWalletState(walletStates, a, now)
    /\ UNCHANGED <<configVars, wallets, now, loopPc, walletsToRun, inFlight, poolVars, feeVars, seqVars>>

CallMarkWalletAsRunning(a) ==
    /\ walletStates' = MarkWalletAsRunning(walletStates, a)
    /\ UNCHANGED <<configVars, wallets, now, loopPc, walletsToRun, inFlight, poolVars, feeVars, seqVars>>

CallMarkWalletAsCompleted(a, success, delay) ==
    /\ walletStates[a].transactionsCompleted + walletStates[a].errors < MaxOps
    /\ delay \in NextRunDelays(success)
    /\ \E errorMessage \in ErrorMessages(success) :
          walletStates' = MarkWalletAsCompleted(walletStates, a, success,
                                                errorMessage, delay, now)
    /\ UNCHANGED <<configVars, wallets, now, loopPc, walletsToRun, inFlight, poolVars, feeVars, seqVars>>

RegisterAgain == \E a \in DOMAIN walletStates : CallInitializeWalletState(a)

MarkRunning == \E a \in DOMAIN walletStates : CallMarkWalletAsRunning(a)

MarkCompletedSuccess ==
    \E a \in DOMAIN walletStates : \E d \in Delays : CallMarkWalletAsCompleted(a, TRUE, d)

MarkCompletedFailure ==
    \E a \in DOMAIN walletStates : \E d \in Delays : CallMarkWalletAsCompleted(a, FALSE, d)

-----------------------------------------------------------------------------
\* RpcManager: the endpoint pool

Providers == DOMAIN failCount

NumProviders == Cardinality(Providers)

ZeroFailure(fc) == {i \in DOMAIN fc : fc[i] = 0}

SetMin(S) == CHOOSE x \in S : \A y \in S : x <= y

\* The while loop of switchToNextProvider: at most providers.length steps of
\* (index + 1) % length, stopping at the first provider with failCount 0.
RECURSIVE ScanForZero(_, _, _)
ScanForZero(fc, index, attempts) ==
    IF attempts < Cardinality(DOMAIN fc)
    THEN LET next == (index + 1) % Cardinality(DOMAIN fc)
         IN  IF fc[next] = 0 THEN next ELSE ScanForZero(fc, next, attempts + 1)
    ELSE index

\* A failover that prefers the lowest index of the whole pool over the scan
\* order that starts after the pointer.
SwitchToNextProvider_LowestIndex(fc, index) ==
    IF ZeroFailure(fc) = {} THEN index ELSE SetMin(ZeroFailure(fc))

\* A failover that leaves the pointer where it is.
SwitchToNextProvider_StaysPut(fc, index) == index

\* switchToNextProvider: the new currentProviderIndex.
SwitchToNextProvider(fc, index) == ScanForZero(fc, index, 0)

\* A reset that forgets every failure.
FailCountsAfterFailure_ResetToZero(fc, index) ==
    LET bumped == [fc EXCEPT ![index] = @ + 1]
    IN  IF \A i \in DOMAIN fc : bumped[i] > 0
        THEN [i \in DOMAIN fc |-> 0]
        ELSE bumped

\* The failure counts markCurrentProviderAsFailed leaves: the current one
\* incremented, then every one decremented (floor 0) when none is 0.
FailCountsAfterFailure(fc, index) ==
    LET bumped == [fc EXCEPT ![index] = @ + 1]
    IN  IF \A i \in DOMAIN fc : bumped[i] > 0
        THEN [i \in DOMAIN fc |-> IF bumped[i] - 1 > 0 THEN bumped[i] - 1 ELSE 0]
        ELSE bumped

NoProvider == [index |-> 0 - 1, failCount |-> 0, zeroFailure |-> {}]

\* Two callers of withProvider, enough for one call to run while another fails.
WrapperCalls == {1, 2}

\* A withProvider call: errors holds the errors its attempts have raised so far,
\* each with the provider the attempt ran on (retries is its length, lastError
\* its last message); endpoint is the provider its current attempt got from
\* getCurrentProvider().
IdleCall == [pc |-> "idle", errors |-> <<>>, endpoint |-> 0 - 1]

\* The constructor: initializeProviders for n urls; testAllProviders is started
\* and not awaited.
PoolConstructed(n) ==
    /\ failCount = [i \in 0..(n - 1) |-> 0]
    /\ currentProviderIndex = 0
    /\ testIndex = 0
    /\ poolPc = "testing"
    /\ returned = NoProvider
    /\ calls = [c \in WrapperCalls |-> IdleCall]

\* testProvider(testIndex) resolves true: the count is reset.
TestProviderSucceeds ==
    /\ poolPc = "testing"
    /\ testIndex < NumProviders
    /\ failCount' = [failCount EXCEPT ![testIndex] = 0]
    /\ testIndex' = testIndex + 1
    /\ UNCHANGED <<currentProviderIndex, poolPc, returned, calls, schedVars, feeVars, seqVars>>

\* testProvider(testIndex) resolves false: an error or the wrong chain id.
TestProviderFails ==
    /\ poolPc = "testing"
    /\ testIndex < NumProviders
    /\ failCount' = [failCount EXCEPT ![testIndex] = @ + 1]
    /\ testIndex' = testIndex + 1
    /\ UNCHANGED <<currentProviderIndex, poolPc, returned, calls, schedVars, feeVars, seqVars>>

\* testAllProviders, after its loop: the first provider with failCount 0
\* becomes the current one.
TestAllProvidersSelects ==
    /\ poolPc = "testing"
    /\ testIndex = NumProviders
    /\ ZeroFailure(failCount) # {}
    /\ currentProviderIndex' = SetMin(ZeroFailure(failCount))
    /\ poolPc' = "ready"
    /\ UNCHANGED <<failCount, testIndex, returned, calls, schedVars, feeVars, seqVars>>

\* testAllProviders, after its loop: no provider has failCount 0, it throws.
\* Nobody awaits the promise: the rejection is unhandled.
TestAllProvidersThrows ==
    /\ poolPc = "testing"
    /\ testIndex = NumProviders
    /\ ZeroFailure(failCount) = {}
    /\ poolPc' = "failed"
    /\ UNCHANGED <<failCount, currentProviderIndex, testIndex, returned, calls, schedVars, feeVars, seqVars>>

\* getCurrentProvider(), called by withProvider's actions, connectWallet and
\* createContract at any time after the constructor returned.
GetCurrentProvider ==
    /\ returned' = [index |-> currentProviderIndex,
                    failCount |-> failCount[currentProviderIndex],
                    zeroFailure |-> ZeroFailure(failCount)]
    /\ UNCHANGED <<failCount, currentProviderIndex, testIndex, poolPc, calls, schedVars, feeVars, seqVars>>

\* markCurrentProviderAsFailed, called by withProvider when an attempt fails
\* with a transport-class error.
MarkCurrentProviderAsFailed ==
    /\ failCount' = FailCountsAfterFailure(failCount, currentProviderIndex)
    /\ currentProviderIndex' =
          SwitchToNextProvider(FailCountsAfterFailure(failCount, currentProviderIndex),
                               currentProviderIndex)
    /\ UNCHANGED <<testIndex, poolPc, returned, calls, schedVars, feeVars, seqVars>>

-----------------------------------------------------------------------------
\* RpcManager.withProvider: the resilient call wrapper

\* The message of the error the wrapper's own timeoutPromise rejects with
\* (line 704; the source text is Chinese and holds no Latin letters after "RPC").
RpcTimeoutMessage == "RPC request timed out [zh]"

\* Errors an action can raise: one that names a transport failure and one that
\* does not (a revert).
ActionErrors == {"network error", "execution reverted"}

\* The test of lines 717-722: the message includes one of four fragments.
IncludesFailoverPattern(message) ==
    message \in {"timeout", "server error", "network error", "connection refused"}

\* action() is invoked: RpcManager's own actions (lines 739-766) read
\* getCurrentProvider() at that instant.
StartAttempt(c) ==
    [calls EXCEPT ![c].pc = "attempt", ![c].endpoint = currentProviderIndex]

\* withProvider is called: first pass of the while loop.
WithProviderCalled(c) ==
    /\ calls[c].pc = "idle"
    /\ calls' = StartAttempt(c)
    /\ UNCHANGED <<failCount, currentProviderIndex, testIndex, poolPc, returned, schedVars, feeVars, seqVars>>

\* The race is won by action() resolving: its result is returned.
AttemptSucceeds(c) ==
    /\ calls[c].pc = "attempt"
    /\ calls' = [calls EXCEPT ![c].pc = "returned"]
    /\ UNCHANGED <<failCount, currentProviderIndex, testIndex, poolPc, returned, schedVars, feeVars, seqVars>>

\* The catch block (lines 710-729) for an error with the given message.
CatchError(c, message) ==
    /\ calls[c].pc = "attempt"
    /\ calls' = [calls EXCEPT
                   ![c].errors = Append(@, [endpoint |-> calls[c].endpoint,
                                            message |-> message]),
                   ![c].pc = IF Len(calls[c].errors) + 1 <= RpcMaxRetries
                             THEN "sleeping" ELSE "thrown"]
    /\ IF IncludesFailoverPattern(message)
       THEN /\ failCount' = FailCountsAfterFailure(failCount, currentProviderIndex)
            /\ currentProviderIndex' =
                  SwitchToNextProvider(
                      FailCountsAfterFailure(failCount, currentProviderIndex),
                      currentProviderIndex)
       ELSE UNCHANGED <<failCount, currentProviderIndex>>
    /\ UNCHANGED <<testIndex, poolPc, returned, schedVars, feeVars, seqVars>>

\* The race is lost by action() rejecting.
ActionRaises == \E c \in WrapperCalls : \E message \in ActionErrors : CatchError(c, message)

\* The race is won by the timeoutPromise.
AttemptTimesOut == \E c \in WrapperCalls : CatchError(c, RpcTimeoutMessage)

\* sleep(retryDelay) ends: next pass of the while loop.
RetryDelayEnds(c) ==
    /\ calls[c].pc = "sleeping"
    /\ calls' = StartAttempt(c)
    /\ UNCHANGED <<failCount, currentProviderIndex, testIndex, poolPc, returned, schedVars, feeVars, seqVars>>

-----------------------------------------------------------------------------
\* SwapEngine: executeSwap and retryWithHigherGas on config.gasSettings.swap

ConfiguredGasSettings ==
    [maxFeePerGas |-> ConfiguredMaxFeePerGas,
     maxPriorityFeePerGas |-> ConfiguredMaxPriorityFeePerGas,
     maxRetries |-> ConfiguredMaxRetries]

\* (parseFloat(fee) * multiplier).toFixed(6): the product rounded to six
\* decimals of a gwei, i.e. to a whole number of 10^-6 gwei.
Escalated(fee) == (fee * RetryMultiplierTenths + 5) \div 10

Callers == 1..NumCallers

\* result: how the caller's last executeSwap call ended.
IdleCaller ==
    [pc |-> "idle", frames |-> <<>>, sent |-> <<>>, swaps |-> 0, result |-> "none"]

\* The fees executeSwap puts in txParams (lines 303-310).
TxFees(settings) == <<settings.maxFeePerGas, settings.maxPriorityFeePerGas>>

\* Promise continuations run to the end before the next network event is
\* handled: while a chain unwinds through its finally blocks nothing else runs.
NoneUnwinding == \A c \in Callers : callers[c].pc # "unwinding"

\* A task calls executeSwap: txParams are built from the stored settings and
\* the transaction is sent (lines 284-313).
ExecuteSwap(c) ==
    /\ NoneUnwinding
    /\ callers[c].pc = "idle"
    /\ callers[c].swaps < MaxSwaps
    /\ callers' = [callers EXCEPT ![c].pc = "sending",
                                  ![c].sent = TxFees(gasSettings),
                                  ![c].swaps = @ + 1,
                                  ![c].result = "none"]
    /\ UNCHANGED <<gasSettings, schedVars, poolVars, seqVars>>

\* The transaction in flight is confirmed (returned = TRUE) or fails with an
\* error that is not "replacement transaction underpriced" (returned = FALSE):
\* executeSwap returns or throws through every retryWithHigherGas above it.
SwapSettles(c, ok) ==
    /\ NoneUnwinding
    /\ callers[c].pc = "sending"
    /\ callers' = [callers EXCEPT
                     ![c].pc = IF callers[c].frames = <<>> THEN "idle" ELSE "unwinding",
                     ![c].sent = <<>>,
                     ![c].result = IF ok THEN "receipt" ELSE "error"]
    /\ UNCHANGED <<gasSettings, schedVars, poolVars, seqVars>>

SwapConfirmed == \E c \in Callers : SwapSettles(c, TRUE)

SwapRejected == \E c \in Callers : SwapSettles(c, FALSE)

\* A budget test that never refuses.
NoRetriesLeft_Never(settings) == FALSE

\* The test of line 360, !settings.maxRetries.
NoRetriesLeft(settings) == settings.maxRetries = 0

\* The transaction in flight fails as underpriced and a retry is left:
\* retryWithHigherGas saves the two fees, escalates them, takes one retry and
\* calls executeSwap again (lines 337-343, 356-380).  retriesBefore is not in
\* the code: it records the budget the invocation found.
UnderpricedRetry(c) ==
    /\ NoneUnwinding
    /\ callers[c].pc = "sending"
    /\ ~NoRetriesLeft(gasSettings)
    /\ gasSettings' = [maxFeePerGas |-> Escalated(gasSettings.maxFeePerGas),
                       maxPriorityFeePerGas |-> Escalated(gasSettings.maxPriorityFeePerGas),
                       maxRetries |-> gasSettings.maxRetries - 1]
    /\ callers' = [callers EXCEPT
                     ![c].frames = Append(@, [originalMaxFee |-> gasSettings.maxFeePerGas,
                                              originalPriorityFee |-> gasSettings.maxPriorityFeePerGas,
                                              retriesBefore |-> gasSettings.maxRetries]),
                     ![c].sent = TxFees(gasSettings')]
    /\ UNCHANGED <<schedVars, poolVars, seqVars>>

\* The transaction in flight fails as underpriced and maxRetries is 0:
\* retryWithHigherGas throws before touching the settings (lines 360-362).
UnderpricedExhausted(c) ==
    /\ NoneUnwinding
    /\ callers[c].pc = "sending"
    /\ NoRetriesLeft(gasSettings)
    /\ callers' = [callers EXCEPT
                     ![c].pc = IF callers[c].frames = <<>> THEN "idle" ELSE "unwinding",
                     ![c].sent = <<>>,
                     ![c].result = "exhausted"]
    /\ UNCHANGED <<gasSettings, schedVars, poolVars, seqVars>>

\* The finally block of the innermost retryWithHigherGas still open
\* (lines 381-386): the saved fees are written back, maxRetries += 1.
Finally(c) ==
    /\ callers[c].pc = "unwinding"
    /\ LET frame == callers[c].frames[Len(callers[c].frames)]
           rest == SubSeq(callers[c].frames, 1, Len(callers[c].frames) - 1)
       IN  /\ gasSettings' = [maxFeePerGas |-> frame.originalMaxFee,
                              maxPriorityFeePerGas |-> frame.originalPriorityFee,
                              maxRetries |-> gasSettings.maxRetries + 1]
           /\ callers' = [callers EXCEPT
                            ![c].frames = rest,
                            ![c].pc = IF rest = <<>> THEN "idle" ELSE "unwinding"]
    /\ UNCHANGED <<schedVars, poolVars, seqVars>>

-----------------------------------------------------------------------------
\* SwapEngine.executeTransactionSequence: the task executor

TransactionTypes == {"SWAP_PRIOR_TO_USDC", "SWAP_USDC_TO_PRIOR"}

\* utils.generateTransactionSequence: the sequences it can return for a drawn
\* count.  The first type is forced when alwaysStartWithPriorToUsdc is set (the
\* push happens even when count is 0); each further type differs from the one
\* before it.
GenerateTransactionSequence(count, alwaysStartWithPriorToUsdc) ==
    LET n == IF alwaysStartWithPriorToUsdc /\ count < 1 THEN 1 ELSE count
    IN  {s \in [1..n -> TransactionTypes] :
           /\ (alwaysStartWithPriorToUsdc /\ n >= 1) => s[1] = "SWAP_PRIOR_TO_USDC"
           /\ \A i \in 1..(n - 1) : s[i] # s[i + 1]}

\* Array.prototype.indexOf: the 0-based position of the first occurrence.
IndexOf(seq, x) == SetMin({i \in DOMAIN seq : seq[i] = x}) - 1

IdleRun == [pc |-> "idle", txSequence |-> <<>>, index |-> 0, log |-> <<>>,
            result |-> "pending"]

\* executeTransactionSequence(txSequence) is called: the pre-checks start.
StartRun(txSequence) ==
    [pc |-> "prechecks", txSequence |-> txSequence, index |-> 0, log |-> <<>>,
     result |-> "pending"]

\* What the for loop records for the step at r.index: its type, whether the
\* inter-step delay was taken before it (lines 425-431), and how it ended.
LogEntry(r, outcome) ==
    [txType |-> r.txSequence[r.index],
     delayed |-> IndexOf(r.txSequence, r.txSequence[r.index]) > 0,
     outcome |-> outcome]

\* The loop moves past a step that did not raise: the next step, or return true
\* after the last one (line 477).
StepDone(r, outcome) ==
    IF r.index = Len(r.txSequence)
    THEN [r EXCEPT !.log = Append(@, LogEntry(r, outcome)),
                   !.pc = "returned", !.result = "true"]
    ELSE [r EXCEPT !.log = Append(@, LogEntry(r, outcome)), !.index = @ + 1]

\* A skipped step that ends the run.
SkippedStep_Aborts(r) ==
    [r EXCEPT !.log = Append(@, LogEntry(r, "skipped")),
              !.pc = "returned", !.result = "false"]

\* A step that raises and lets the loop go on to the next step.
RaisedStep_Continues(r) == StepDone(r, "raised")

\* A call of the step raises: control leaves the for loop for the catch block,
\* which returns false (lines 478-483).
RaisedStep(r) ==
    [r EXCEPT !.log = Append(@, LogEntry(r, "raised")),
              !.pc = "returned", !.result = "false"]

\* The balance read of a swap step is below the minimum: continue
\* (lines 442-445, 465-468).
SkippedStep(r) == StepDone(r, "skipped")

\* The ETH balance is sufficient and the token balances were read (after a
\* faucet request if the PRIOR balance was 0): the for loop starts.
PreChecksPass ==
    /\ run.pc = "prechecks"
    /\ run' = IF run.txSequence = <<>>
              THEN [run EXCEPT !.pc = "returned", !.result = "true"]
              ELSE [run EXCEPT !.pc = "steps", !.index = 1]
    /\ UNCHANGED <<schedVars, poolVars, feeVars, engineVars>>

\* The ETH balance is below 0.001, or a balance read or the faucet request
\* raises: the catch block returns false (lines 478-483).
PreChecksFail ==
    /\ run.pc = "prechecks"
    /\ run' = [run EXCEPT !.pc = "returned", !.result = "false"]
    /\ UNCHANGED <<schedVars, poolVars, feeVars, engineVars>>

StepSkipped ==
    /\ run.pc = "steps"
    /\ run' = SkippedStep(run)
    /\ UNCHANGED <<schedVars, poolVars, feeVars, engineVars>>

\* The balance is sufficient; the allowance check, the approval if needed and
\* executeSwap all resolve.
StepExecuted ==
    /\ run.pc = "steps"
    /\ run' = StepDone(run, "executed")
    /\ UNCHANGED <<schedVars, poolVars, feeVars, engineVars>>

\* A balance read, the allowance check, the approval or executeSwap raises:
\* the catch block returns false.
StepRaises ==
    /\ run.pc = "steps"
    /\ run' = RaisedStep(run)
    /\ UNCHANGED <<schedVars, poolVars, feeVars, engineVars>>

-----------------------------------------------------------------------------
\* runWalletTask around executeTransactionSequence

\* The account whose task is followed.
TaskAccount == 1

\* A task that reports its successes only.
TaskReports_OnlySuccess ==
    /\ run.pc = "returned"
    /\ run.result = "true"
    /\ inFlight[TaskAccount] > 0
    /\ \E delay \in NextRunDelays(TRUE) :
          walletStates' = MarkWalletAsCompleted(walletStates, TaskAccount,
                                                TRUE, Null, delay, now)
    /\ inFlight' = [inFlight EXCEPT ![TaskAccount] = @ - 1]
    /\ run' = [run EXCEPT !.pc = "reported"]
    /\ UNCHANGED <<configVars, wallets, now, loopPc, walletsToRun, poolVars, feeVars, engineVars>>

\* executeTransactionSequence has returned: line 243 reports the boolean to
\* markWalletAsCompleted, with no third argument.
TaskReports ==
    /\ run.pc = "returned"
    /\ inFlight[TaskAccount] > 0
    /\ \E delay \in NextRunDelays(run.result = "true") :
          walletStates' = MarkWalletAsCompleted(walletStates, TaskAccount,
                                                run.result = "true", Null, delay, now)
    /\ inFlight' = [inFlight EXCEPT ![TaskAccount] = @ - 1]
    /\ run' = [run EXCEPT !.pc = "reported"]
    /\ UNCHANGED <<configVars, wallets, now, loopPc, walletsToRun, poolVars, feeVars, engineVars>>

\* After the report of a failure (line 253), or of a success with
\* config.api.mining read at line 249 and activateMiner awaited (it resolves
\* in every case, src/unnamed/part_001:228-262): runWalletTask ends.
TaskEnds ==
    /\ run.pc = "reported"
    /\ run.result = "true" => apiMining
    /\ run' = [run EXCEPT !.pc = "ended"]
    /\ UNCHANGED <<schedVars, poolVars, feeVars, engineVars>>

\* After the report of a success, config.api.mining is undefined: the read of
\* .enabled at line 249 throws inside the try block, and the catch block
\* reports the account again, as failed (line 257).
TaskReportsAgain ==
    /\ run.pc = "reported"
    /\ run.result = "true"
    /\ ~apiMining
    /\ \E delay \in NextRunDelays(FALSE) :
          walletStates' = MarkWalletAsCompleted(walletStates, TaskAccount,
                                                FALSE, "error", delay, now)
    /\ run' = [run EXCEPT !.pc = "ended"]
    /\ UNCHANGED <<configVars, wallets, now, loopPc, walletsToRun, inFlight, poolVars,
                   feeVars, engineVars>>

-----------------------------------------------------------------------------
\* The remote calls of executeTransactionSequence

\* checkEthBalance calls rpcManager.getBalance (line 59), the one call of the
\* executor that goes through withProvider: it is call 2 of the wrapper.
ExecutorCall == 2

\* executeTransactionSequence is called: checkEthBalance has called
\* withProvider and the first attempt is in progress.
StartRunAtEthBalance(txSequence) == [StartRun(txSequence) EXCEPT !.pc = "ethBalance"]

EthBalanceResolves == run.pc = "ethBalance" /\ AttemptSucceeds(ExecutorCall)

EthBalanceRaises ==
    /\ run.pc = "ethBalance"
    /\ \E message \in ActionErrors \cup {RpcTimeoutMessage} :
          CatchError(ExecutorCall, message)

EthBalanceRetries == run.pc = "ethBalance" /\ RetryDelayEnds(ExecutorCall)

\* getBalance returned at least 0.001 ETH: the token balances are read next.
EthBalanceSufficient ==
    /\ run.pc = "ethBalance"
    /\ calls[ExecutorCall].pc = "returned"
    /\ run' = [run EXCEPT !.pc = "prechecks"]
    /\ UNCHANGED <<schedVars, poolVars, feeVars, engineVars>>

\* getBalance returned less than 0.001 ETH: line 404 throws into the catch.
EthBalanceInsufficient ==
    /\ run.pc = "ethBalance"
    /\ calls[ExecutorCall].pc = "returned"
    /\ run' = [run EXCEPT !.pc = "returned", !.result = "false"]
    /\ UNCHANGED <<schedVars, poolVars, feeVars, engineVars>>

\* withProvider threw after its last attempt: the catch returns false.
EthBalanceThrown ==
    /\ run.pc = "ethBalance"
    /\ calls[ExecutorCall].pc = "thrown"
    /\ run' = [run EXCEPT !.pc = "returned", !.result = "false"]
    /\ UNCHANGED <<schedVars, poolVars, feeVars, engineVars>>

\* A call made on the objects initializeContracts bound to a provider
\* (balanceOf, decimals, allowance, claim, approve, sendTransaction, wait)
\* rejects with the given message: the error reaches the catch block of
\* executeTransactionSequence (through the rethrow of the helper), which
\* returns false.  Neither withProvider nor the pool is involved.
ContractCallRaises(message) ==
    /\ run.pc \in {"prechecks", "steps"}
    /\ run' = IF run.pc = "steps"
              THEN RaisedStep(run)
              ELSE [run EXCEPT !.pc = "returned", !.result = "false"]
    /\ UNCHANGED <<schedVars, poolVars, feeVars, engineVars>>

ContractCallFails == \E message \in ActionErrors : ContractCallRaises(message)

-----------------------------------------------------------------------------
\* main: from the construction of the RpcManager to the first launch

\* The process has not called process.exit and has not been ended by an
\* unhandled rejection.
Alive == loopPc # "aborted"

\* The promise of testAllProviders rejects and nobody handles it; the process
\* prints a warning and goes on (the default of Node.js before version 15, or
\* --unhandled-rejections=warn).
ProbesFailProcessGoesOn == Alive /\ TestAllProvidersThrows

\* The same rejection ends the process (the default from Node.js 15 on).
ProbesFailProcessEnds ==
    /\ Alive
    /\ poolPc = "testing"
    /\ testIndex = NumProviders
    /\ ZeroFailure(failCount) = {}
    /\ poolPc' = "failed"
    /\ loopPc' = "aborted"
    /\ UNCHANGED <<failCount, currentProviderIndex, testIndex, returned, calls,
                   configVars, wallets, walletStates, now, walletsToRun, inFlight,
                   feeVars, seqVars>>

ProbeSucceeds == Alive /\ TestProviderSucceeds

ProbeFails == Alive /\ TestProviderFails

ProbesSelect == Alive /\ TestAllProvidersSelects

\* main's own call, rpcManager.getNetwork() at line 83, is call 1 of withProvider.
MainCall == 1

GetNetworkResolves == Alive /\ loopPc = "connecting" /\ AttemptSucceeds(MainCall)

GetNetworkRaises ==
    /\ Alive
    /\ loopPc = "connecting"
    /\ \E message \in ActionErrors \cup {RpcTimeoutMessage} : CatchError(MainCall, message)

GetNetworkRetries == Alive /\ loopPc = "connecting" /\ RetryDelayEnds(MainCall)

\* getNetwork() returned the configured chain id: lines 84-114 load the
\* wallets, build the SwapEngine and enter startMainLoop, whose first iteration
\* launches the first wallet of its batch, all in one synchronous segment.
MainStarts ==
    /\ loopPc = "connecting"
    /\ calls[MainCall].pc = "returned"
    /\ LaunchWallet(Head(SliceToRun(walletStates, now)),
                    Tail(SliceToRun(walletStates, now)))
    /\ UNCHANGED <<configVars, wallets, now, poolVars, feeVars, seqVars>>

\* getNetwork() returned another chain id: process.exit(1) at line 88.
MainNetworkMismatch ==
    /\ loopPc = "connecting"
    /\ calls[MainCall].pc = "returned"
    /\ loopPc' = "aborted"
    /\ UNCHANGED <<configVars, wallets, walletStates, now, walletsToRun, inFlight,
                   poolVars, feeVars, seqVars>>

\* getNetwork() threw after its last retry: the catch of lines 116-120 exits.
MainStartupFails ==
    /\ loopPc = "connecting"
    /\ calls[MainCall].pc = "thrown"
    /\ loopPc' = "aborted"
    /\ UNCHANGED <<configVars, wallets, walletStates, now, walletsToRun, inFlight,
                   poolVars, feeVars, seqVars>>

StartedTaskSucceeds == Alive /\ TaskSucceeds

StartedTaskFails == Alive /\ TaskFails

-----------------------------------------------------------------------------
\* Specifications

\* The scheduler at rest, for the specifications of the other components.
SchedulerAtRest ==
    /\ maxConcurrent = 1
    /\ runForever = TRUE
    /\ maxTransactions = Undefined
    /\ roundMin = MaxRound
    /\ roundMax = MaxRound
    /\ betweenWallets = TRUE
    /\ apiMining = TRUE
    /\ wallets = <<1>>
    /\ now = 0
    /\ walletStates = [a \in {1} |-> InitialWalletState(0)]
    /\ loopPc = "tick"
    /\ walletsToRun = <<>>
    /\ inFlight = [a \in {1} |-> 0]

SequenceAtRest == run = IdleRun

\* The SwapEngine as its constructor leaves it (src/swapEngine.js:18-23): no
\* contract and no connected wallet yet, and no task started.
NoWallet == 0

EngineAtRest ==
    /\ connectedWallet = NoWallet
    /\ tasks = <<>>

FeesAtRest ==
    /\ gasSettings = ConfiguredGasSettings
    /\ callers = [c \in Callers |-> IdleCaller]

\* The scheduler and the registry, for every configuration and wallet file.
Init ==
    /\ SchedulerInit
    /\ PoolConstructed(1)
    /\ FeesAtRest
    /\ EngineAtRest
    /\ SequenceAtRest

Next ==
    \/ TickCeilingReached
    \/ TickNothingToRun
    \/ TickLaunch
    \/ TickLaunchRaises
    \/ CatchSleepEnds
    \/ PaceLaunch
    \/ PaceExit
    \/ PaceContinue
    \/ TaskSucceeds
    \/ TaskFails
    \/ AdvanceTime

Spec == Init /\ [][Next]_vars

\* The same program with every timer firing and every task settling: each
\* sleep of startMainLoop ends, each runWalletTask reports, the clock advances.
Fairness ==
    /\ WF_vars(TickLaunch)
    /\ WF_vars(TickLaunchRaises)
    /\ WF_vars(CatchSleepEnds)
    /\ WF_vars(PaceLaunch)
    /\ WF_vars(PaceExit)
    /\ WF_vars(PaceContinue)
    /\ WF_vars(TaskSucceeds \/ TaskFails)
    /\ WF_vars(AdvanceTime)

LiveSpec == Init /\ [][Next]_vars /\ Fairness

\* The endpoint pool from its construction on, for 1..MaxProviders urls.
PoolInit ==
    /\ \E n \in 1..MaxProviders : PoolConstructed(n)
    /\ SchedulerAtRest
    /\ FeesAtRest
    /\ EngineAtRest
    /\ SequenceAtRest

PoolNext ==
    \/ TestProviderSucceeds
    \/ TestProviderFails
    \/ TestAllProvidersSelects
    \/ TestAllProvidersThrows
    \/ GetCurrentProvider
    \/ MarkCurrentProviderAsFailed

PoolSpec == PoolInit /\ [][PoolNext]_vars

\* withProvider calls on a pool whose startup probes have all succeeded.
WrapperInit ==
    /\ \E n \in 1..MaxProviders :
          /\ failCount = [i \in 0..(n - 1) |-> 0]
          /\ testIndex = n
    /\ currentProviderIndex = 0
    /\ poolPc = "ready"
    /\ returned = NoProvider
    /\ calls = [c \in WrapperCalls |-> IdleCall]
    /\ SchedulerAtRest
    /\ FeesAtRest
    /\ EngineAtRest
    /\ SequenceAtRest

WrapperNext ==
    \/ \E c \in WrapperCalls : WithProviderCalled(c)
    \/ \E c \in WrapperCalls : AttemptSucceeds(c)
    \/ ActionRaises
    \/ AttemptTimesOut
    \/ \E c \in WrapperCalls : RetryDelayEnds(c)

WrapperSpec == WrapperInit /\ [][WrapperNext]_vars

\* NumCallers tasks running executeSwap on the shared gas settings.
FeeInit ==
    /\ FeesAtRest
    /\ EngineAtRest
    /\ SequenceAtRest
    /\ SchedulerAtRest
    /\ PoolConstructed(1)

FeeNext ==
    \/ \E c \in Callers : ExecuteSwap(c)
    \/ SwapConfirmed
    \/ SwapRejected
    \/ \E c \in Callers : UnderpricedRetry(c)
    \/ \E c \in Callers : UnderpricedExhausted(c)
    \/ \E c \in Callers : Finally(c)

FeeSpec == FeeInit /\ [][FeeNext]_vars

\* The registry alone: every wallet file, a fixed success cooldown.
RegistryInit ==
    /\ SchedulingInputs
    /\ maxConcurrent = MaxCeiling
    /\ runForever \in BOOLEAN
    /\ maxTransactions \in IF runForever THEN {Undefined}
                                         ELSE {Undefined} \cup 0..MaxMaxTransactions
    /\ now = 0
    /\ walletStates = [a \in Range(wallets) |-> InitialWalletState(0)]
    /\ loopPc = "tick"
    /\ walletsToRun = <<>>
    /\ inFlight = [a \in Range(wallets) |-> 0]
    /\ PoolConstructed(1)
    /\ FeesAtRest
    /\ EngineAtRest
    /\ SequenceAtRest

RegistryNext ==
    \/ RegisterAgain
    \/ MarkRunning
    \/ MarkCompletedSuccess
    \/ MarkCompletedFailure
    \/ AdvanceTime

RegistrySpec == RegistryInit /\ [][RegistryNext]_vars

\* One call of executeTransactionSequence on every sequence
\* generateTransactionSequence can return for a count up to MaxSteps.
SequenceInit ==
    /\ \E count \in 1..MaxSteps : \E alwaysStartWithPriorToUsdc \in BOOLEAN :
          \E txSequence \in GenerateTransactionSequence(count, alwaysStartWithPriorToUsdc) :
             run = StartRun(txSequence)
    /\ SchedulerAtRest
    /\ PoolConstructed(1)
    /\ FeesAtRest
    /\ EngineAtRest

SequenceNext ==
    \/ PreChecksPass
    \/ PreChecksFail
    \/ StepSkipped
    \/ StepExecuted
    \/ StepRaises

SequenceSpec == SequenceInit /\ [][SequenceNext]_vars

\* One task from its launch to its report: the account has been marked
\* running and executeTransactionSequence has been called.
TaskInit ==
    /\ \E count \in 1..MaxSteps : \E alwaysStartWithPriorToUsdc \in BOOLEAN :
          \E txSequence \in GenerateTransactionSequence(count, alwaysStartWithPriorToUsdc) :
             run = StartRun(txSequence)
    /\ maxConcurrent = 1
    /\ runForever \in BOOLEAN
    /\ maxTransactions \in IF runForever THEN {Undefined}
                                         ELSE {Undefined} \cup 0..MaxMaxTransactions
    /\ roundMin = MaxRound
    /\ roundMax = MaxRound
    /\ betweenWallets = TRUE
    /\ apiMining \in BOOLEAN
    /\ wallets = <<TaskAccount>>
    /\ now = 0
    /\ walletStates = MarkWalletAsRunning([a \in {TaskAccount} |-> InitialWalletState(0)],
                                          TaskAccount)
    /\ loopPc = "pace"
    /\ walletsToRun = <<>>
    /\ inFlight = [a \in {TaskAccount} |-> 1]
    /\ PoolConstructed(1)
    /\ FeesAtRest
    /\ EngineAtRest

TaskNext ==
    \/ PreChecksPass
    \/ PreChecksFail
    \/ StepSkipped
    \/ StepExecuted
    \/ StepRaises
    \/ TaskReports
    \/ TaskEnds
    \/ TaskReportsAgain

TaskSpec == TaskInit /\ [][TaskNext]_vars

\* One run of executeTransactionSequence with its remote calls, on a pool
\* whose startup probes have all succeeded.
ExecutorInit ==
    /\ \E count \in 1..MaxSteps : \E alwaysStartWithPriorToUsdc \in BOOLEAN :
          \E txSequence \in GenerateTransactionSequence(count, alwaysStartWithPriorToUsdc) :
             run = StartRunAtEthBalance(txSequence)
    /\ \E n \in 1..MaxProviders :
          /\ failCount = [i \in 0..(n - 1) |-> 0]
          /\ testIndex = n
    /\ currentProviderIndex = 0
    /\ poolPc = "ready"
    /\ returned = NoProvider
    /\ calls = [c \in WrapperCalls |->
                  IF c = ExecutorCall
                  THEN [pc |-> "attempt", errors |-> <<>>, endpoint |-> 0]
                  ELSE IdleCall]
    /\ SchedulerAtRest
    /\ FeesAtRest
    /\ EngineAtRest

ExecutorNext ==
    \/ EthBalanceResolves
    \/ EthBalanceRaises
    \/ EthBalanceRetries
    \/ EthBalanceSufficient
    \/ EthBalanceInsufficient
    \/ EthBalanceThrown
    \/ PreChecksPass
    \/ StepSkipped
    \/ StepExecuted
    \/ ContractCallFails

ExecutorSpec == ExecutorInit /\ [][ExecutorNext]_vars

\* One task from its launch to its end, with the remote calls of its run: the
\* account has been marked running, runWalletTask has called
\* executeTransactionSequence and the first attempt of getBalance is in
\* progress.
RunInit ==
    /\ \E count \in 1..MaxSteps : \E alwaysStartWithPriorToUsdc \in BOOLEAN :
          \E txSequence \in GenerateTransactionSequence(count, alwaysStartWithPriorToUsdc) :
             run = StartRunAtEthBalance(txSequence)
    /\ \E n \in 1..MaxProviders :
          /\ failCount = [i \in 0..(n - 1) |-> 0]
          /\ testIndex = n
    /\ currentProviderIndex = 0
    /\ poolPc = "ready"
    /\ returned = NoProvider
    /\ calls = [c \in WrapperCalls |->
                  IF c = ExecutorCall
                  THEN [pc |-> "attempt", errors |-> <<>>, endpoint |-> 0]
                  ELSE IdleCall]
    /\ maxConcurrent = 1
    /\ runForever = TRUE
    /\ maxTransactions = Undefined
    /\ roundMin = MaxRound
    /\ roundMax = MaxRound
    /\ betweenWallets = TRUE
    /\ apiMining \in BOOLEAN
    /\ wallets = <<TaskAccount>>
    /\ now = 0
    /\ walletStates = MarkWalletAsRunning([a \in {TaskAccount} |-> InitialWalletState(0)],
                                          TaskAccount)
    /\ loopPc = "pace"
    /\ walletsToRun = <<>>
    /\ inFlight = [a \in {TaskAccount} |-> 1]
    /\ FeesAtRest
    /\ EngineAtRest

RunNext ==
    \/ ExecutorNext
    \/ TaskReports
    \/ TaskEnds
    \/ TaskReportsAgain

\* Every remote call of the run settles, every sleep ends and every
\* continuation runs.
RunFairness ==
    /\ WF_vars(ExecutorNext)
    /\ WF_vars(TaskReports)
    /\ WF_vars(TaskEnds \/ TaskReportsAgain)

RunLiveSpec == RunInit /\ [][RunNext]_vars /\ RunFairness

\* The start of the program: the constructor has started the probes, main
\* awaits getNetwork(); then the first launches, within one unit of time.
StartupInit ==
    /\ wallets \in WalletLists(MaxWallets)
    /\ maxConcurrent \in 1..MaxCeiling
    /\ runForever = TRUE
    /\ maxTransactions = Undefined
    /\ roundMin = MaxRound
    /\ roundMax = MaxRound
    /\ betweenWallets = TRUE
    /\ apiMining = TRUE
    /\ now = 0
    /\ walletStates = [a \in Range(wallets) |-> InitialWalletState(0)]
    /\ loopPc = "connecting"
    /\ walletsToRun = <<>>
    /\ inFlight = [a \in Range(wallets) |-> 0]
    /\ \E n \in 1..MaxProviders : failCount = [i \in 0..(n - 1) |-> 0]
    /\ currentProviderIndex = 0
    /\ testIndex = 0
    /\ poolPc = "testing"
    /\ returned = NoProvider
    /\ calls = [c \in WrapperCalls |->
                  IF c = MainCall
                  THEN [pc |-> "attempt", errors |-> <<>>, endpoint |-> 0]
                  ELSE IdleCall]
    /\ FeesAtRest
    /\ EngineAtRest
    /\ SequenceAtRest

StartupNext ==
    \/ ProbeSucceeds
    \/ ProbeFails
    \/ ProbesSelect
    \/ ProbesFailProcessGoesOn
    \/ ProbesFailProcessEnds
    \/ GetNetworkResolves
    \/ GetNetworkRaises
    \/ GetNetworkRetries
    \/ MainStarts
    \/ MainNetworkMismatch
    \/ MainStartupFails
    \/ TickCeilingReached
    \/ TickNothingToRun
    \/ TickLaunch
    \/ PaceLaunch
    \/ PaceContinue
    \/ StartedTaskSucceeds
    \/ StartedTaskFails

StartupSpec == StartupInit /\ [][StartupNext]_vars

-----------------------------------------------------------------------------
\* Concurrent tasks on the one SwapEngine instance (src/main.js:111)

\* A runWalletTask call: the wallet it was called with, the remote reads and
\* steps its run still has to issue, and for each one issued so far the wallet
\* it was issued with, i.e. this.connectedWallet (the signer of
\* this.priorContract, this.usdcContract and this.faucetContract) at that
\* moment.
IdleTask == [pc |-> "idle", wallet |-> NoWallet, callsLeft |-> 0, performedAs |-> <<>>]

\* The synchronous start of runWalletTask(wallet): initializeContracts(wallet)
\* overwrites the engine's contracts and connectedWallet (lines 29-52), the
\* sequence is drawn and executeTransactionSequence runs up to its first
\* await, inside checkEthBalance: the first read is issued in this segment, n
\* more are to come.
StartTask(a, n) ==
    /\ connectedWallet' = a
    /\ tasks' = [tasks EXCEPT ![a] = [pc |-> "running", wallet |-> a,
                                      callsLeft |-> n, performedAs |-> <<a>>]]

\* TickLaunch with the task's own first segment.
EngineTickLaunch ==
    /\ loopPc = "tick"
    /\ GetRunningWalletsCount(walletStates) < maxConcurrent
    /\ SliceToRun(walletStates, now) # <<>>
    /\ LaunchWallet(Head(SliceToRun(walletStates, now)),
                    Tail(SliceToRun(walletStates, now)))
    /\ \E n \in 0..MaxSteps : StartTask(Head(SliceToRun(walletStates, now)), n)
    /\ UNCHANGED <<configVars, wallets, now, poolVars, feeVars, run>>

\* PaceLaunch with the task's own first segment.
EnginePaceLaunch ==
    /\ loopPc = "pace"
    /\ walletsToRun # <<>>
    /\ LaunchWallet(Head(walletsToRun), Tail(walletsToRun))
    /\ \E n \in 0..MaxSteps : StartTask(Head(walletsToRun), n)
    /\ UNCHANGED <<configVars, wallets, now, poolVars, feeVars, run>>

\* The run of task a resumes after an await and issues its next remote read
\* or step: checkTokenBalances (71-74), checkTokenAllowance (113-116),
\* requestFaucet (162), approveToken (225-233) and executeSwap (312-316) all
\* go through this.connectedWallet and the this.*Contract fields.
EngineCall(a) ==
    /\ tasks[a].pc = "running"
    /\ tasks[a].callsLeft > 0
    /\ tasks' = [tasks EXCEPT ![a].callsLeft = @ - 1,
                              ![a].performedAs = Append(@, connectedWallet)]
    /\ UNCHANGED <<schedVars, poolVars, feeVars, run, connectedWallet>>

\* executeTransactionSequence of task a has returned: line 243 reports.
EngineTaskReports(a, success, delay) ==
    /\ tasks[a].pc = "running"
    /\ tasks[a].callsLeft = 0
    /\ delay \in NextRunDelays(success)
    /\ walletStates' = MarkWalletAsCompleted(walletStates, tasks[a].wallet, success,
                                             Null, delay, now)
    /\ inFlight' = [inFlight EXCEPT ![tasks[a].wallet] = @ - 1]
    /\ tasks' = [tasks EXCEPT ![a].pc = "reported"]
    /\ UNCHANGED <<configVars, wallets, now, loopPc, walletsToRun, poolVars, feeVars,
                   run, connectedWallet>>

EngineCalls == \E a \in DOMAIN tasks : EngineCall(a)

EngineTaskEnds ==
    \E a \in DOMAIN tasks : \E success \in BOOLEAN : \E d \in Delays :
       EngineTaskReports(a, success, d)

\* MaxWallets distinct keys and a ceiling that lets them all run at once.
EngineInit ==
    /\ wallets = [i \in 1..MaxWallets |-> i]
    /\ maxConcurrent \in 1..MaxWallets
    /\ runForever = TRUE
    /\ maxTransactions = Undefined
    /\ roundMin = MaxRound
    /\ roundMax = MaxRound
    /\ betweenWallets = TRUE
    /\ apiMining = TRUE
    /\ now = 0
    /\ walletStates = [a \in 1..MaxWallets |-> InitialWalletState(0)]
    /\ loopPc = "tick"
    /\ walletsToRun = <<>>
    /\ inFlight = [a \in 1..MaxWallets |-> 0]
    /\ PoolConstructed(1)
    /\ FeesAtRest
    /\ SequenceAtRest
    /\ connectedWallet = NoWallet
    /\ tasks = [a \in 1..MaxWallets |-> IdleTask]

EngineNext ==
    \/ EngineTickLaunch
    \/ EnginePaceLaunch
    \/ PaceContinue
    \/ EngineCalls
    \/ EngineTaskEnds

EngineSpec == EngineInit /\ [][EngineNext]_vars

-----------------------------------------------------------------------------
\* Claims about the scheduler and the registry.

Accounts == DOMAIN walletStates

\* The accounts whose state says running.
RunningAccounts == {a \in Accounts : walletStates[a].status = "running"}

\* The one-time mode has a configured maximum and tc has reached it.
AtConfiguredMaximum(tc) ==
    ~runForever /\ maxTransactions # Undefined /\ tc >= maxTransactions

\* C1: in every reachable state the number of accounts whose state is running
\* is at most wallets.maxConcurrent.
C1_RunningWithinCeiling == Cardinality(RunningAccounts) <= maxConcurrent

\* A full ceiling of two or more, filled by the paced launches of one batch
\* after an earlier task has already reported back.
C1_Witness ==
    /\ maxConcurrent > 1
    /\ Cardinality(RunningAccounts) = maxConcurrent
    /\ loopPc = "pace"
    /\ \E a \in Accounts : walletStates[a].errors > 0

\* C2: for every account at most one task is in flight at any time.
C2_OneTaskPerAccount == \A a \in Accounts : inFlight[a] <= 1

\* C6 as stated: a successful completion leaves status completed, runCount + 1,
\* errorCount unchanged and nextEligibleTime in [now + roundMin, now + roundMax].
C6_SuccessAsStated ==
    [][\A a \in Accounts : \A d \in Delays :
         FinishTask(a, TRUE, d) =>
           /\ walletStates'[a].status = "completed"
           /\ walletStates'[a].transactionsCompleted
                 = walletStates[a].transactionsCompleted + 1
           /\ walletStates'[a].errors = walletStates[a].errors
           /\ walletStates'[a].nextRunTime \in (now + roundMin)..(now + roundMax)]_vars

\* C6 amended: a successful completion adds one to runCount and leaves
\* errorCount unchanged; it leaves status completed and nextEligibleTime in
\* [now + roundMin, now + roundMax], unless the one-time mode's configured
\* maximum is reached, in which case the account is retired.
C6_SuccessCompletedOrRetired ==
    [][\A a \in Accounts : \A d \in Delays :
         FinishTask(a, TRUE, d) =>
           /\ walletStates'[a].transactionsCompleted
                 = walletStates[a].transactionsCompleted + 1
           /\ walletStates'[a].errors = walletStates[a].errors
           /\ ~walletStates'[a].isRunning
           /\ IF AtConfiguredMaximum(walletStates[a].transactionsCompleted + 1)
              THEN /\ walletStates'[a].status = "retired"
                   /\ walletStates'[a].nextRunTime = MAX_SAFE_INTEGER
              ELSE /\ walletStates'[a].status = "completed"
                   /\ walletStates'[a].nextRunTime
                         \in (now + roundMin)..(now + roundMax)]_vars

\* A success recorded after the clock has moved, waiting out its cooldown.
C6_Witness ==
    \E a \in Accounts :
        /\ walletStates[a].status = "completed"
        /\ walletStates[a].transactionsCompleted > 0
        /\ walletStates[a].nextRunTime > roundMax

\* C7 as stated: a failed completion leaves status failed, errorCount + 1,
\* runCount unchanged and nextEligibleTime in [now + backoffMin, now + backoffMax].
C7_FailureAsStated ==
    [][\A a \in Accounts : \A d \in Delays :
         FinishTask(a, FALSE, d) =>
           /\ walletStates'[a].status = "failed"
           /\ walletStates'[a].errors = walletStates[a].errors + 1
           /\ walletStates'[a].transactionsCompleted
                 = walletStates[a].transactionsCompleted
           /\ walletStates'[a].nextRunTime
                 \in (now + BackoffMin)..(now + BackoffMax)]_vars

\* C7 amended: a failed completion adds one to errorCount and leaves runCount
\* unchanged; it leaves status failed and nextEligibleTime in
\* [now + backoffMin, now + backoffMax], unless in one-time mode runCount is at
\* or above the configured maximum, in which case the account is retired.
C7_FailureFailedOrRetired ==
    [][\A a \in Accounts : \A d \in Delays :
         FinishTask(a, FALSE, d) =>
           /\ walletStates'[a].errors = walletStates[a].errors + 1
           /\ walletStates'[a].transactionsCompleted
                 = walletStates[a].transactionsCompleted
           /\ ~walletStates'[a].isRunning
           /\ IF AtConfiguredMaximum(walletStates[a].transactionsCompleted)
              THEN /\ walletStates'[a].status = "retired"
                   /\ walletStates'[a].nextRunTime = MAX_SAFE_INTEGER
              ELSE /\ walletStates'[a].status = "failed"
                   /\ walletStates'[a].nextRunTime
                         \in (now + BackoffMin)..(now + BackoffMax)]_vars

\* A failure recorded after the clock has moved, under a success cooldown that
\* differs from the failure cooldown.
C7_Witness ==
    \E a \in Accounts :
        /\ walletStates[a].status = "failed"
        /\ walletStates[a].errors > 0
        /\ walletStates[a].nextRunTime > BackoffMax
        /\ roundMin > BackoffMax

\* C8: whatever the configuration, every cooldown assigned after a failure is
\* smaller than every cooldown a success can be assigned (backoffMax < roundMin).
C8_FailureCooldownShorter ==
    [][\A a \in Accounts : \A d \in Delays :
         FinishTask(a, FALSE, d) =>
           \A r \in GetRandomInRange(roundMin, roundMax) : d < r]_vars

\* C9: in one-time mode, a completion (success or failure) that leaves runCount
\* at or above the configured maximum leaves the account retired with
\* nextEligibleTime at a value the clock never reaches.
C9_RetiredAtMaximum ==
    [][\A a \in Accounts : \A d \in Delays : \A success \in BOOLEAN :
         (/\ FinishTask(a, success, d)
          /\ AtConfiguredMaximum(walletStates'[a].transactionsCompleted)) =>
           /\ walletStates'[a].status = "retired"
           /\ walletStates'[a].nextRunTime = MAX_SAFE_INTEGER
           /\ walletStates'[a].nextRunTime > MaxTime]_vars

\* An account retired by reaching a configured maximum of one run or more.
C9_Witness ==
    \E a \in Accounts :
        /\ walletStates[a].status = "retired"
        /\ maxTransactions >= 1
        /\ walletStates[a].transactionsCompleted = maxTransactions

\* C10: once an account is retired, its state (status, runCount, errorCount,
\* nextEligibleTime, running flag) never changes and it is never eligible.
C10_RetiredIsTerminal ==
    [][\A a \in Accounts :
         walletStates[a].status = "retired" =>
           /\ walletStates'[a] = walletStates[a]
           /\ ~IsAvailable(walletStates', a, now')]_vars

\* C11: under a non-decreasing clock no launch and no completion stores in an
\* account's nextEligibleTime a value smaller than the one it replaces.
C11_NextRunTimeNeverMovesBack ==
    [][\A a \in Accounts :
         walletStates'[a].nextRunTime >= walletStates[a].nextRunTime]_vars

\* C12: registering an account that is already registered leaves its state
\* (status, nextEligibleTime, runCount, errorCount, lastError) as it was.
C12_RegisterIdempotent ==
    [][\A a \in Accounts :
         CallInitializeWalletState(a) => walletStates'[a] = walletStates[a]]_vars

-----------------------------------------------------------------------------
\* Claims about the endpoint pool.

\* C3: whenever getCurrentProvider() is read, the endpoint it returns has zero
\* failures unless no endpoint of the pool has zero failures.
C3_CurrentHasZeroFailures ==
    returned.failCount > 0 => returned.zeroFailure = {}

-----------------------------------------------------------------------------
\* Claims about the fee escalation.

\* C4: when an invocation of retryWithHigherGas ends (its finally block has
\* run), the stored maxFee, priorityFee and retry budget equal the values they
\* had immediately before that invocation.
C4_SettingsRestoredOnReturn ==
    [][\A c \in Callers :
         Finally(c) =>
           LET frame == callers[c].frames[Len(callers[c].frames)]
           IN  /\ gasSettings'.maxFeePerGas = frame.originalMaxFee
               /\ gasSettings'.maxPriorityFeePerGas = frame.originalPriorityFee
               /\ gasSettings'.maxRetries = frame.retriesBefore]_vars

\* C5: a call that is not part of an escalation chain sends the configured
\* fees, and once no chain is in flight the stored settings are the configured
\* ones.
C5_EscalationNeverLeaks ==
    /\ \A c \in Callers :
          (callers[c].pc = "sending" /\ callers[c].frames = <<>>) =>
             callers[c].sent = TxFees(ConfiguredGasSettings)
    /\ (\A c \in Callers : callers[c].frames = <<>>) =>
          gasSettings = ConfiguredGasSettings

-----------------------------------------------------------------------------
\* Claims about the call wrapper.

\* The messages of the errors a call has caught so far, in order.
CaughtMessages(c) == [i \in DOMAIN calls[c].errors |-> calls[c].errors[i].message]

\* C13 (scenario A): on a pool of three healthy endpoints with the pointer at
\* E1, a call whose attempts raise a transport-class error twice and then
\* succeed ran on E1, E2 and E3 in that order, returns E3's result, and leaves
\* the counters at 1, 1, 0 with the pointer at E3.
C13_ScenarioA ==
    \A c \in WrapperCalls :
        (/\ NumProviders = 3
         /\ \A o \in WrapperCalls \ {c} : calls[o] = IdleCall
         /\ calls[c].pc = "returned"
         /\ CaughtMessages(c) = <<"network error", "network error">>)
        => /\ calls[c].errors[1].endpoint = 0
           /\ calls[c].errors[2].endpoint = 1
           /\ calls[c].endpoint = 2
           /\ failCount = (0 :> 1 @@ 1 :> 1 @@ 2 :> 0)
           /\ currentProviderIndex = 2

\* The call of scenario A has returned.
C13_Witness ==
    \E c \in WrapperCalls :
        /\ NumProviders = 3
        /\ \A o \in WrapperCalls \ {c} : calls[o] = IdleCall
        /\ calls[c].pc = "returned"
        /\ CaughtMessages(c) = <<"network error", "network error">>

\* C20: an attempt that loses the race against the wrapper's timeout is
\* followed by markFailed on the current endpoint, as a transport-class error is.
C20_TimeoutMarksFailed ==
    [][\A c \in WrapperCalls :
         CatchError(c, RpcTimeoutMessage) =>
           /\ failCount' = FailCountsAfterFailure(failCount, currentProviderIndex)
           /\ currentProviderIndex' =
                 SwitchToNextProvider(
                     FailCountsAfterFailure(failCount, currentProviderIndex),
                     currentProviderIndex)]_vars

-----------------------------------------------------------------------------
\* Claims about the task executor.

\* C15 (scenario D): a swap step whose balance is below the minimum is
\* skipped without raising; the loop goes on to the next step, so a run that
\* has returned with no step raised has an outcome for every step of the
\* sequence and returned true, whatever was skipped.
C15_SkipDoesNotAbort ==
    /\ \A i \in DOMAIN run.log :
          (run.log[i].outcome = "skipped" /\ i = Len(run.log)) =>
             IF i < Len(run.txSequence)
             THEN run.pc = "steps" /\ run.index = i + 1
             ELSE run.pc = "returned" /\ run.result = "true"
    /\ (/\ run.pc = "returned"
        /\ run.log # <<>>
        /\ \A i \in DOMAIN run.log : run.log[i].outcome # "raised")
       => /\ run.result = "true"
          /\ Len(run.log) = Len(run.txSequence)
          /\ \A i \in DOMAIN run.log : run.log[i].txType = run.txSequence[i]

\* A run that skipped its first step, executed a later one and returned true.
C15_Witness ==
    /\ run.pc = "returned"
    /\ run.result = "true"
    /\ Len(run.log) >= 2
    /\ run.log[1].outcome = "skipped"
    /\ \E i \in DOMAIN run.log : run.log[i].outcome = "executed"

-----------------------------------------------------------------------------
\* Claims about the end of the scheduler loop.

\* The exit condition of the one-time mode holds.
ExitConditionHolds == AllDone(walletStates, now)

\* C16: in one-time mode, once completed + running >= total and
\* available = 0 the loop eventually exits, idle iterations included.
\* Behaviours in which an account is left waiting for a cooldown that ends
\* after MaxTime, where the clock of the model stops, are not held against
\* the property.
C16_ExitConditionLeadsToExit ==
    ExitConditionHolds ~>
        \/ loopPc = "exited"
        \/ \E a \in DOMAIN walletStates :
              /\ walletStates[a].status # "retired"
              /\ walletStates[a].nextRunTime > MaxTime

\* C17: in one-time mode, when the loop has exited every account that is
\* not running is retired; none waits out a cooldown to be eligible again.
C17_RetiredAtExit ==
    [][(loopPc # "exited" /\ loopPc' = "exited") =>
          \A a \in DOMAIN walletStates :
              ~walletStates'[a].isRunning => walletStates'[a].status = "retired"]_vars

\* C18: with runForever the loop never exits, whatever the ticks, the task
\* outcomes and the exceptions raised in the loop body.
C18_RunForeverNeverExits == runForever => loopPc # "exited"

\* With runForever, the loop is at the exit test in a state that would end a
\* one-time run.
C18_Witness ==
    /\ runForever
    /\ loopPc = "pace"
    /\ walletsToRun = <<>>
    /\ AllDone_IgnoresMode(walletStates, now)

-----------------------------------------------------------------------------
\* Claims about startup.

\* C19: when every endpoint has failed its startup probe the system does not
\* start: no account has been launched and none is launched afterwards.
C19_NoLaunchWithoutHealthyEndpoint ==
    poolPc = "failed" =>
        \A a \in DOMAIN walletStates :
            walletStates[a].status = "ready" /\ inFlight[a] = 0

-----------------------------------------------------------------------------
\* More claims about the call wrapper.

\* The times a call has invoked its action: once per error caught, and once
\* more for the attempt in progress or the attempt that returned.
Attempts(c) ==
    Len(calls[c].errors) + (IF calls[c].pc \in {"attempt", "returned"} THEN 1 ELSE 0)

\* C21: a wrapper call invokes its action at most maxRetries times, the first
\* attempt included, and a call whose every attempt failed has raised the
\* error of its last attempt.
C21_AtMostMaxRetriesAttempts ==
    \A c \in WrapperCalls : Attempts(c) <= RpcMaxRetries

\* C22: an action that raises a non-transport error is not retried: the call
\* propagates the error after that single attempt, without markFailed, and
\* the counters and the pointer of the pool are unchanged.
C22_NonTransportErrorPropagates ==
    [][\A c \in WrapperCalls : \A message \in ActionErrors :
         (~IncludesFailoverPattern(message) /\ CatchError(c, message)) =>
            /\ calls'[c].pc = "thrown"
            /\ failCount' = failCount
            /\ currentProviderIndex' = currentProviderIndex]_vars

-----------------------------------------------------------------------------
\* More claims about the scheduler and the registry.

\* C23: markWalletAsRunning on an account that is already running fails and
\* leaves the state of the account unchanged: the launch that called it
\* raises before runWalletTask, so no task is started for that account.
C23_MarkRunningTwiceFails ==
    [][\A a \in Accounts :
         (walletStates[a].isRunning /\ loopPc \in {"tick", "pace"}) =>
            inFlight'[a] <= inFlight[a]]_vars

-----------------------------------------------------------------------------
\* More claims about the task executor.

\* C24: a run aborted by an error of a pre-check or of a step returns failure
\* with that error retained: once the task has reported, the lastError of the
\* account holds it and is not empty.
C24_AbortKeepsError ==
    (run.pc = "reported" /\ run.result = "false") =>
        walletStates[TaskAccount].lastError # Null

-----------------------------------------------------------------------------
\* Claims about exceptions in the scheduler loop.

\* C25: an exception raised in the loop body is caught and followed by the
\* sleep of the catch block, after which the loop ticks again; the loop ends
\* only by its exit test, and a task that reports, failure included, changes
\* nothing of the loop.
C25_LoopSurvivesExceptions ==
    [][/\ (loopPc = "caught" /\ loopPc' # "caught") => loopPc' = "tick"
       /\ (loopPc # "exited" /\ loopPc' = "exited") =>
             loopPc = "pace" /\ walletsToRun = <<>> /\ AllDone(walletStates, now)
       /\ (\E a \in Accounts : inFlight'[a] < inFlight[a]) =>
             loopPc' = loopPc /\ walletsToRun' = walletsToRun]_vars

\* A launch has raised, the loop has slept and ticked again, a task has
\* failed, and another launch has raised since.
C25_Witness ==
    /\ ~betweenWallets
    /\ loopPc = "caught"
    /\ \E a \in Accounts : walletStates[a].errors > 0
    /\ \E a \in Accounts : inFlight[a] > 0

-----------------------------------------------------------------------------
\* More claims about the fee escalation.

\* C26: one chain of executeSwap sends its transaction at most
\* 1 + maxRetries times (once, and once per retryWithHigherGas frame it has
\* open); a transaction is sent again only when the budget found was not 0,
\* and a chain that found it 0 has ended without sending again.
C26_EscalationBounded ==
    \A c \in Callers :
        /\ 1 + Len(callers[c].frames) <= 1 + ConfiguredMaxRetries
        /\ \A i \in DOMAIN callers[c].frames : callers[c].frames[i].retriesBefore > 0
        /\ callers[c].result = "exhausted" =>
              callers[c].pc # "sending" /\ callers[c].sent = <<>>

\* A chain that used the whole budget by itself and then failed for good.
C26_Witness ==
    \E c \in Callers :
        /\ callers[c].result = "exhausted"
        /\ Len(callers[c].frames) = ConfiguredMaxRetries

\* C27: every remote call of the executor goes through the wrapper, so a
\* transport-class error on one of them is retried (after failover) and does
\* not by itself end the run.
C27_TransportErrorIsRetried ==
    [][\A message \in ActionErrors :
         (IncludesFailoverPattern(message) /\ ContractCallRaises(message)) =>
            run'.pc # "returned"]_vars

-----------------------------------------------------------------------------
\* More claims about the endpoint pool.

-----------------------------------------------------------------------------
\* More claims about the step sequence.

\* C29: in a run over any step sequence, the inter-step delay is taken before
\* every step except the first one, and not before the first one.
C29_DelayBeforeEveryStepButFirst ==
    \A i \in DOMAIN run.log : run.log[i].delayed <=> i > 1


\* C30: a run returns true only after the last step of its sequence, with
\* every step skipped or executed and none raised; a step that raises is the
\* last step the run takes (no later step of the sequence is started) and the
\* run returns false.
C30_ErrorAbortsRun ==
    /\ run.result = "true" =>
          /\ run.pc = "returned"
          /\ Len(run.log) = Len(run.txSequence)
          /\ \A i \in DOMAIN run.log : run.log[i].outcome \in {"skipped", "executed"}
    /\ \A i \in DOMAIN run.log :
          run.log[i].outcome = "raised" =>
             /\ i = Len(run.log)
             /\ run.pc = "returned"
             /\ run.result = "false"
    /\ run.pc \in {"prechecks", "steps"} => run.result = "pending"

\* The second step of a sequence of three or more raised after the first was
\* executed, and the run has returned.
C30_Witness ==
    /\ Len(run.txSequence) >= 3
    /\ Len(run.log) = 2
    /\ run.log[1].outcome = "executed"
    /\ run.log[2].outcome = "raised"
    /\ run.pc = "returned"

-----------------------------------------------------------------------------
\* Claims about the launches of a tick.

\* C31: a step of the loop that starts a task marks its account running in the
\* same synchronous segment, starts one task only, leaves every other account
\* and task as it is (the loop does not wait for a task), and, with
\* delays.betweenWallets configured, suspends the loop in the inter-launch
\* sleep: the next launch can only be the step that ends this sleep or a later
\* one.
C31_LaunchThenPace ==
    [][\A a \in Accounts :
          inFlight'[a] > inFlight[a] =>
             /\ loopPc \in {"tick", "pace"}
             /\ walletStates'[a].isRunning
             /\ walletStates'[a].status = "running"
             /\ inFlight'[a] = inFlight[a] + 1
             /\ \A b \in Accounts \ {a} :
                   /\ inFlight'[b] = inFlight[b]
                   /\ walletStates'[b] = walletStates[b]
             /\ betweenWallets => loopPc' = "pace"]_vars

\* The second account of a batch has been launched after the pacing sleep
\* while the task of the first is still in flight.
C31_Witness ==
    /\ betweenWallets
    /\ wallets = <<1, 2>>
    /\ inFlight = <<1, 1>>
    /\ walletStates[1].isRunning
    /\ walletStates[2].isRunning
    /\ loopPc = "pace"
    /\ walletsToRun = <<>>


\* C32: every account a step of the loop marks running is, at that instant,
\* not running and past its nextRunTime, also when it is launched after the
\* pacing sleeps that follow the tick's snapshot; the first launch of a tick
\* takes the first available account of the list and the rest of the batch
\* follows in list order.
C32_LaunchedWhenEligible ==
    [][\A a \in Accounts :
          inFlight'[a] > inFlight[a] =>
             LET Position(b) == SetMin({i \in DOMAIN wallets : wallets[i] = b})
             IN  /\ ~walletStates[a].isRunning
                 /\ now >= walletStates[a].nextRunTime
                 /\ loopPc = "tick" =>
                       \A b \in Accounts :
                          IsAvailable(walletStates, b, now) => Position(a) <= Position(b)
                 /\ \A i \in DOMAIN walletsToRun' :
                       /\ Position(a) <= Position(walletsToRun'[i])
                       /\ \A j \in DOMAIN walletsToRun' :
                             i <= j => Position(walletsToRun'[i]) <= Position(walletsToRun'[j])]_vars

-----------------------------------------------------------------------------
\* Claims about concurrent tasks on the shared engine.

\* C33: every remote read and step a task has issued was issued with the
\* wallet the task was launched for, whatever other tasks were launched in
\* the meantime.
C33_StepsUseOwnAccount ==
    \A a \in DOMAIN tasks :
       \A i \in DOMAIN tasks[a].performedAs : tasks[a].performedAs[i] = tasks[a].wallet

-----------------------------------------------------------------------------
\* Claims about concurrent calls of the wrapper.

\* C34: when an attempt of a withProvider call fails with a transport-class
\* error, the failure is counted on the endpoint that attempt ran on, also
\* when another call has moved the pointer since the attempt started.
C34_FailureCountedOnAttemptEndpoint ==
    [][\A c \in WrapperCalls : \A message \in ActionErrors :
          (IncludesFailoverPattern(message) /\ CatchError(c, message)) =>
             failCount' = FailCountsAfterFailure(failCount, calls[c].endpoint)]_vars

-----------------------------------------------------------------------------
\* Claims about the report of a task.

\* C35: one launch is recorded at most once: from a fresh account, the one run
\* of the task leaves transactionsCompleted + errors at most 1, and exactly 1
\* once it has reported.
C35_RunRecordedOnce ==
    /\ walletStates[TaskAccount].transactionsCompleted
          + walletStates[TaskAccount].errors <= 1
    /\ run.pc \in {"reported", "ended"} =>
          walletStates[TaskAccount].transactionsCompleted
             + walletStates[TaskAccount].errors = 1


\* C36: with every remote call of its run settling, an account that is marked
\* running is eventually marked finished: it does not stay running.
C36_RunningLeadsToFinished ==
    walletStates[TaskAccount].isRunning
       ~> (~walletStates[TaskAccount].isRunning /\ inFlight[TaskAccount] = 0)

\* The balance read failed on every attempt of the wrapper, the run returned
\* false and the task has reported: the account is no longer running.
C36_Witness ==
    /\ calls[ExecutorCall].pc = "thrown"
    /\ run.pc \in {"reported", "ended"}
    /\ run.result = "false"
    /\ ~walletStates[TaskAccount].isRunning
    /\ walletStates[TaskAccount].errors = 1

-----------------------------------------------------------------------------
\* Claims about the registry's statistics.

\* C37: getWalletStats counts no account both as running and as completed:
\* completed + running <= total, and running + available <= total.
C37_StatsAreDisjoint ==
    /\ \A a \in Accounts :
          ~(walletStates[a].isRunning /\ walletStates[a].transactionsCompleted > 0)
    /\ GetWalletStats(walletStates, now).completed
          + GetWalletStats(walletStates, now).running
             <= GetWalletStats(walletStates, now).total
    /\ GetWalletStats(walletStates, now).running
          + GetWalletStats(walletStates, now).available
             <= GetWalletStats(walletStates, now).total

====
